---- MODULE Spec2Model ----
(***************************************************************************)
(* A model of four parts of snap:                                          *)
(*   - the REST plugin handlers of package rest: loadPlugin, unloadPlugin  *)
(*     and swapPlugins over the plugin catalog and the temporary           *)
(*     directories that hold uploaded plugin binaries (specification Spec),*)
(*     getPlugin and getPlugins over a catalog that some loads have filled *)
(*     (specification SpecQuery);                                          *)
(*   - the start-up and signal handling of snapd (specification            *)
(*     SpecDaemon), setMaxProcs on every host (SpecMaxProcs), and start-up *)
(*     with autodiscovery and the callers of Load on plugin control, when  *)
(*     no signal is sent (SpecStartup);                                    *)
(*   - Process of the passthru processor (specification SpecProcess);      *)
(*   - snapctl: its init() and its metric commands (specification SpecCli).*)
(* Strings that the code inspects character by character (file names,      *)
(* metric namespaces, passwords) are sequences of one-character strings.   *)
(***************************************************************************)
EXTENDS Integers, Sequences, FiniteSets, TLC

VARIABLES
  catalog,    \* the plugin catalog: a sequence of loaded plugins, in load order
  tmpDirs,    \* the temporary directories that exist on disk
  trustLevel, \* the plugin trust level set on plugin control
  resp,       \* the request handled last and what the handler did for it
  available   \* the running instances of loaded plugins, as the pool lists them

restVars == <<catalog, tmpDirs, trustLevel, resp, available>>

VARIABLES
  mainPc,     \* snapd: position of the main goroutine in action()
  sigPc,      \* snapd: position of the signal goroutine
  cfg,        \* snapd: the settings of this run (flags and what Start returns)
  started,    \* snapd: action()'s local slice of started modules
  events,     \* snapd: the Start/Stop calls and returns so far, in order
  exitCode,   \* snapd: -1 while the process runs, else its exit status
  gomaxprocs, \* snapd: the value given to runtime.GOMAXPROCS (0: not yet set)
  monPc       \* snapd: position of the goroutine of monitorErrors

daemonVars ==
  <<mainPc, sigPc, cfg, started, events, exitCode, gomaxprocs, monPc>>

VARIABLES
  cliPc,      \* snapctl: position in the command
  cliIn,      \* snapctl: the flags of this run
  cliOut      \* snapctl: what the command did

cliVars == <<cliPc, cliIn, cliOut>>

VARIABLES
  loads,      \* snapd: the Load calls made on plugin control so far
  discovered  \* snapd: what autodiscovery did

loadVars == <<loads, discovered>>

VARIABLES
  procIn,     \* passthru: the arguments of Process
  procOut     \* passthru: what Process returned

procVars == <<procIn, procOut>>

vars == <<catalog, tmpDirs, trustLevel, resp, available,
          mainPc, sigPc, cfg, started, events, exitCode, gomaxprocs, monPc,
          cliPc, cliIn, cliOut, loads, discovered, procIn, procOut>>

(***************************************************************************)
(* Bounds of the model.                                                    *)
(***************************************************************************)
\* the most parts a multipart body carries
MaxParts == 3
\* the most temporary directories on disk at once
MaxDirs == 3
\* the longest namespace string given to snapctl
MaxLen == 4
\* the most CPUs a host has
MaxCPU == 6
\* the most directories named by --auto-discover
MaxPaths == 2
\* the most files in the directories of --auto-discover altogether
MaxFiles == 2
\* the most bytes in a payload given to the passthru processor
MaxPayload == 3
\* the most arguments on the command line of snapctl
MaxArgs == 3
\* the most elements in the namespace of a metric the server returns
MaxElems == 3
\* the most plugins in the catalog, and the most running instances, when
\* the catalog is queried
MaxCatalog == 3
MaxAvailable == 2

Max(S) == CHOOSE x \in S : \A y \in S : y <= x
Min(S) == CHOOSE x \in S : \A y \in S : x <= y

(***************************************************************************)
(* REST: requests.                                                         *)
(***************************************************************************)
PluginAlreadyLoaded == "plugin is already loaded"

\* the file names a multipart part may carry
PluginFile == <<"p">>
SigFile == <<"p", ".", "a", "s", "c">>
FileNames == {PluginFile, SigFile}
AscExt == <<".", "a", "s", "c">>

\* filepath.Ext: the suffix beginning at the final dot, empty without a dot
Ext(name) ==
  LET dots == {i \in 1..Len(name) : name[i] = "."}
  IN  IF dots = {} THEN <<>> ELSE SubSeq(name, Max(dots), Len(name))

\* the contents an uploaded binary may have
Binaries == {1, 2, 3}

\* what can go wrong in the environment while one request is handled
Faults == {"none", "read0", "read1", "mkdir", "create", "corrupt"}

\* the part at which NextPart or ReadAll returns an error (-1: none)
ReadFailAt(fault) ==
  CASE fault = "read0" -> 0
    [] fault = "read1" -> 1
    [] OTHER -> -1

PartSeqs == UNION {[1..n -> FileNames] : n \in 0..MaxParts}

TypeParams == {"", "collector"}
NameParams == {"", "mock"}
VersionParams == {"x", "1", "2"}

NoReq ==
  [op |-> "none", ctype |-> "multipart", parts |-> <<>>, bin |-> 1,
   fault |-> "none", type |-> "", name |-> "", version |-> "",
   details |-> FALSE, download |-> FALSE]

\* the bodies of POST /plugins and POST /plugins/:type/:name/:version
Bodies ==
  {[NoReq EXCEPT !.parts = ps, !.bin = b, !.fault = f] :
     ps \in PartSeqs, b \in Binaries, f \in Faults}
  \cup {[NoReq EXCEPT !.ctype = c] : c \in {"bad", "text"}}

LoadRequests == {[b EXCEPT !.op = "load"] : b \in Bodies}

ParamRequests(op) ==
  {[NoReq EXCEPT !.op = op, !.type = t, !.name = n, !.version = v] :
     t \in TypeParams, n \in NameParams, v \in VersionParams}

UnloadRequests == ParamRequests("unload")

SwapRequests ==
  {[b EXCEPT !.op = "swap", !.type = p.type, !.name = p.name,
             !.version = p.version] :
     b \in Bodies, p \in ParamRequests("swap")}

(***************************************************************************)
(* REST: the collaborators of the handlers that are not in the handlers'   *)
(* file: the requested plugin of package core and the catalog of package   *)
(* control.                                                                *)
(***************************************************************************)
NoPlugin == [type |-> "", name |-> "", version |-> 0]

\* the plugin a binary announces when it is started (NoPlugin: it is none)
PluginMeta(content) ==
  CASE content = 1 -> [type |-> "collector", name |-> "mock", version |-> 1]
    [] content = 2 -> [type |-> "collector", name |-> "mock", version |-> 2]
    [] OTHER -> NoPlugin

Triple(e) == [type |-> e.type, name |-> e.name, version |-> e.version]

Triples(cat) == {Triple(cat[i]) : i \in 1..Len(cat)}

Remove(cat, t) == SelectSeq(cat, LAMBDA e : Triple(e) # t)

EntryOf(cat, t) == cat[CHOOSE i \in 1..Len(cat) : Triple(cat[i]) = t]

\* sha256.Sum256 over the small range of contents
Sum256(b) == (b * 37 + 11) % 256

\* what a corrupted write leaves on disk in place of b
Corrupt(b) == (b % 3) + 1

\* core.NewRequestedPlugin: reads the file at path and keeps its checksum
NewRequestedPlugin(path, content) ==
  IF path = 0
  THEN [err |-> "open : no such file or directory", path |-> 0,
        content |-> 0, checkSum |-> 0, signature |-> FALSE]
  ELSE [err |-> "", path |-> path, content |-> content,
        checkSum |-> Sum256(content), signature |-> FALSE]

\* catalog Load: verify under the trust policy, start the plugin, insert it
CatalogLoad(cat, trust, rp) ==
  LET meta == PluginMeta(rp.content) IN
  IF trust = 1 /\ ~rp.signature
  THEN [err |-> "signature file (.asc) is missing", cat |-> cat, pl |-> NoPlugin]
  ELSE IF meta = NoPlugin
  THEN [err |-> "timeout waiting for plugin to start", cat |-> cat, pl |-> NoPlugin]
  ELSE IF meta \in Triples(cat)
  THEN [err |-> PluginAlreadyLoaded, cat |-> cat, pl |-> NoPlugin]
  ELSE [err |-> "", pl |-> meta,
        cat |-> Append(cat, [type |-> meta.type, name |-> meta.name,
                             version |-> meta.version, dir |-> rp.path])]

\* catalog Unload: remove the plugin and delete its artifact on disk
CatalogUnload(cat, dirs, pl) ==
  IF pl \notin Triples(cat)
  THEN [err |-> "plugin not found", cat |-> cat, dirs |-> dirs, up |-> NoPlugin]
  ELSE [err |-> "", cat |-> Remove(cat, pl),
        dirs |-> dirs \ {EntryOf(cat, pl).dir}, up |-> pl]

\* catalog SwapPlugins: load-then-unload; on a failure the catalog is as before
CatalogSwapPlugins(cat, dirs, trust, rp, out) ==
  LET l == CatalogLoad(cat, trust, rp) IN
  IF l.err # ""
  THEN [err |-> l.err, cat |-> cat, dirs |-> dirs, pl |-> NoPlugin, up |-> NoPlugin]
  ELSE LET u == CatalogUnload(l.cat, dirs, out) IN
       IF u.err # ""
       THEN [err |-> u.err, cat |-> cat, dirs |-> dirs, pl |-> NoPlugin, up |-> NoPlugin]
       ELSE [err |-> "", cat |-> u.cat, dirs |-> u.dirs, pl |-> l.pl, up |-> u.up]

(***************************************************************************)
(* REST: the handlers.  A handler's outcome is a record: the response      *)
(* (status, msg), the number of responses written, the calls made on the   *)
(* catalog, the directory writeFile created (0: none), the plugins named   *)
(* in the body, and the catalog and the disk afterwards.                   *)
(***************************************************************************)
NoOut(cat, dirs) ==
  [status |-> 0, msg |-> "", responses |-> 0, loadCalls |-> 0,
   unloadCalls |-> 0, swapCalls |-> 0, dir |-> 0, loaded |-> <<>>,
   unloaded |-> <<>>, cat |-> cat, dirs |-> dirs,
   plugin |-> NoPlugin, binary |-> FALSE,
   list |-> [loaded |-> <<>>, available |-> <<>>]]

\* respond(code, body, w)
Respond(o, code, msg) ==
  [o EXCEPT !.status = code, !.msg = msg, !.responses = @ + 1]

FreshDir(dirs) == Min((1..(MaxDirs + 1)) \ dirs)

\* writeFile: a new temporary directory, the file in it, mode 0700
writeFile(fault, dirs) ==
  IF fault = "mkdir"
  THEN [err |-> "mkdir failed", path |-> 0, dir |-> 0, dirs |-> dirs]
  ELSE LET d == FreshDir(dirs) IN
       IF fault = "create"
       THEN [err |-> "create failed", path |-> 0, dir |-> d, dirs |-> dirs \cup {d}]
       ELSE [err |-> "", path |-> d, dir |-> d, dirs |-> dirs \cup {d}]

\* what is read back from the file writeFile wrote
FileContent(req) == IF req.fault = "corrupt" THEN Corrupt(req.bin) ELSE req.bin

NoParts(o) ==
  [returned |-> FALSE, o |-> o, pluginPath |-> 0, signature |-> FALSE, checkSum |-> 0]

Return(st, code, msg) ==
  [st EXCEPT !.returned = TRUE, !.o = Respond(@, code, msg)]

\* the loop over the parts of the multipart body, from part i on
RECURSIVE ReadParts(_, _, _)
ReadParts(req, i, st) ==
  IF i >= Len(req.parts) THEN st
  ELSE IF ReadFailAt(req.fault) = i THEN Return(st, 500, "read error")
  ELSE LET name == req.parts[i + 1] IN
    CASE i = 0 ->
           IF Ext(name) = AscExt
           THEN Return(st, 500, "Error: first file passed to load plugin api can not be signature file")
           ELSE LET wf == writeFile(req.fault, st.o.dirs)
                    o1 == [st.o EXCEPT !.dirs = wf.dirs, !.dir = wf.dir]
                IN  IF wf.err # ""
                    THEN Return([st EXCEPT !.o = o1], 500, wf.err)
                    ELSE ReadParts(req, 1,
                           [st EXCEPT !.o = o1, !.pluginPath = wf.path,
                                      !.checkSum = Sum256(req.bin)])
      [] i = 1 ->
           IF Ext(name) = AscExt
           THEN ReadParts(req, 2, [st EXCEPT !.signature = TRUE])
           ELSE Return(st, 500, "Error: second file passed was not a signature file")
      [] i = 2 ->
           Return(st, 500, "Error: More than two files passed to the load plugin api")
      [] OTHER -> ReadParts(req, i + 1, st)

\* the sanity check left out: no file on disk is ever found to differ
CheckSumMismatchNever(rp, checkSum) == FALSE

\* the sanity check of the checksum of the file on disk
CheckSumMismatch(rp, checkSum) == rp.checkSum # checkSum

\* every failed Load answered alike
LoadErrorCodeAlways500(msg) == 500

\* the status for a failed Load, from the message of the response body
LoadErrorCode(msg) == IF msg = PluginAlreadyLoaded THEN 409 ELSE 500

\* os.RemoveAll(filepath.Dir(rp.Path()))
RemoveAll(dirs, path) == dirs \ {path}

\* the part of loadPlugin from NewRequestedPlugin to the response
LoadRequested(req, st, cat, trust) ==
  LET rp0 == NewRequestedPlugin(st.pluginPath, FileContent(req)) IN
  IF rp0.err # "" THEN Respond(st.o, 500, rp0.err)
  ELSE IF CheckSumMismatch(rp0, st.checkSum)
  THEN Respond(st.o, 500, "Error: CheckSum mismatch on requested plugin to load")
  ELSE LET rp == [rp0 EXCEPT !.signature = st.signature]
           l == CatalogLoad(cat, trust, rp)
           o1 == [st.o EXCEPT !.loadCalls = @ + 1, !.cat = l.cat]
       IN  IF l.err # ""
           THEN Respond([o1 EXCEPT !.dirs = RemoveAll(@, rp.path)],
                        LoadErrorCode(l.err), l.err)
           ELSE Respond([o1 EXCEPT !.loaded = Append(@, l.pl)], 201, "")

\* Server.loadPlugin
loadPlugin(req, cat, dirs, trust) ==
  IF req.ctype = "bad" THEN Respond(NoOut(cat, dirs), 500, "mime: no media type")
  ELSE IF req.ctype # "multipart" THEN NoOut(cat, dirs)
  ELSE LET st == ReadParts(req, 0, NoParts(NoOut(cat, dirs))) IN
       IF st.returned THEN st.o ELSE LoadRequested(req, st, cat, trust)

\* strconv.ParseInt(s, 10, 0) on the version parameter
ParseInt(s) ==
  CASE s = "1" -> [err |-> FALSE, val |-> 1]
    [] s = "2" -> [err |-> FALSE, val |-> 2]
    [] OTHER -> [err |-> TRUE, val |-> 0]

\* the checks of the path parameters with the name looked at first
ParamErrorNameFirst(req) ==
  IF req.name = "" THEN "missing plugin name"
  ELSE IF ParseInt(req.version).err THEN "invalid version"
  ELSE IF req.type = "" THEN "missing plugin type"
  ELSE ""

\* the checks of the path parameters: "" when they pass
ParamError(req) ==
  IF ParseInt(req.version).err THEN "invalid version"
  ELSE IF req.name = "" THEN "missing plugin name"
  ELSE IF req.type = "" THEN "missing plugin type"
  ELSE ""

\* the plugin the path parameters name
ParamPlugin(req) ==
  [type |-> req.type, name |-> req.name, version |-> ParseInt(req.version).val]

\* Server.unloadPlugin
unloadPlugin(req, cat, dirs) ==
  IF ParamError(req) # "" THEN Respond(NoOut(cat, dirs), 400, ParamError(req))
  ELSE LET u == CatalogUnload(cat, dirs, ParamPlugin(req))
           o1 == [NoOut(u.cat, u.dirs) EXCEPT !.unloadCalls = 1]
       IN  IF u.err # "" THEN Respond(o1, 500, u.err)
           ELSE Respond([o1 EXCEPT !.unloaded = <<u.up>>], 200, "")

\* the call s.mm.SwapPlugins(rp, &plugin{...}) as the commented-out code
\* before it had it: Unload of the old plugin, then Load of the new one
SwapCallUnloadThenLoad(cat, dirs, trust, rp, out) ==
  LET u == CatalogUnload(cat, dirs, out) IN
  IF u.err # ""
  THEN [err |-> u.err, cat |-> cat, dirs |-> dirs, pl |-> NoPlugin, up |-> NoPlugin]
  ELSE LET l == CatalogLoad(u.cat, trust, rp) IN
       [err |-> l.err, cat |-> l.cat, dirs |-> u.dirs, pl |-> l.pl, up |-> u.up]

\* the call s.mm.SwapPlugins(rp, &plugin{...})
SwapCall(cat, dirs, trust, rp, out) ==
  CatalogSwapPlugins(cat, dirs, trust, rp, out)

\* rbody.FromError(err): the body's message is err.Error(), which panics on
\* a nil error ("" stands for nil)
FromError(err) ==
  IF err = "" THEN [panic |-> TRUE, msg |-> ""] ELSE [panic |-> FALSE, msg |-> err]

\* the part of swapPlugins from NewRequestedPlugin to the response
SwapRequested(req, st, cat, trust) ==
  LET rp0 == NewRequestedPlugin(st.pluginPath, FileContent(req)) IN
  IF rp0.err # "" THEN Respond(st.o, 500, rp0.err)
  ELSE IF CheckSumMismatch(rp0, st.checkSum)
  THEN Respond(st.o, 500, "Error: CheckSum mismatch on requested plugin to load")
  ELSE IF ParamError(req) # "" THEN Respond(st.o, 400, ParamError(req))
  ELSE LET rp == [rp0 EXCEPT !.signature = st.signature]
           s == SwapCall(cat, st.o.dirs, trust, rp, ParamPlugin(req))
           o1 == [st.o EXCEPT !.swapCalls = @ + 1, !.cat = s.cat, !.dirs = s.dirs]
       IN  IF s.err # ""
           THEN \* the body is built from err, the nil error of
                \* NewRequestedPlugin, not from se
                LET o2 == [o1 EXCEPT !.dirs = RemoveAll(@, rp.path)]
                    rb == FromError(rp0.err)
                IN  IF rb.panic THEN [o2 EXCEPT !.msg = "panic"]
                    ELSE Respond(o2, LoadErrorCode(rb.msg), rb.msg)
           ELSE Respond([o1 EXCEPT !.loaded = Append(@, s.pl),
                                   !.unloaded = <<s.up>>], 201, "")

\* Server.swapPlugins
swapPlugins(req, cat, dirs, trust) ==
  IF req.ctype = "bad" THEN Respond(NoOut(cat, dirs), 500, "mime: no media type")
  ELSE IF req.ctype # "multipart" THEN NoOut(cat, dirs)
  ELSE LET st == ReadParts(req, 0, NoParts(NoOut(cat, dirs))) IN
       IF st.returned THEN st.o ELSE SwapRequested(req, st, cat, trust)

(***************************************************************************)
(* REST: the handlers that query the catalog.                              *)
(***************************************************************************)
ErrPluginNotFound == "plugin not found"

QueryTypeParams == {"", "collector", "processor"}
QueryNameParams == {"", "mock", "passthru"}

\* GET /plugins/:type/:name/:version with ?download and the error of
\* reading the binary
GetPluginRequests ==
  {[NoReq EXCEPT !.op = "getPlugin", !.type = t, !.name = n, !.version = v,
                 !.download = d, !.fault = f] :
     t \in QueryTypeParams, n \in QueryNameParams, v \in VersionParams,
     d \in BOOLEAN, f \in {"none", "readfile"}}

\* GET /plugins, /plugins/:type and /plugins/:type/:name with ?details
GetPluginsRequests ==
  {[NoReq EXCEPT !.op = "getPlugins", !.type = t, !.name = n, !.details = d] :
     t \in QueryTypeParams, n \in QueryNameParams, d \in BOOLEAN}

\* getPlugin with a search of the catalog that leaves the version aside
getPluginAnyVersion(req, cat, dirs) ==
  LET o == NoOut(cat, dirs) IN
  IF ParamError(req) # "" THEN Respond(o, 400, ParamError(req))
  ELSE LET found == {i \in 1..Len(cat) :
                       cat[i].name = req.name /\ cat[i].type = req.type} IN
       IF found = {} THEN Respond(o, 404, ErrPluginNotFound)
       ELSE Respond([o EXCEPT !.plugin = Triple(cat[Min(found)])], 200, "")

\* Server.getPlugin
getPlugin(req, cat, dirs) ==
  LET o == NoOut(cat, dirs) IN
  IF ParamError(req) # "" THEN Respond(o, 400, ParamError(req))
  ELSE LET found == {i \in 1..Len(cat) : Triple(cat[i]) = ParamPlugin(req)} IN
       IF found = {} THEN Respond(o, 404, ErrPluginNotFound)
       ELSE LET plugin == cat[Min(found)] IN
            IF req.download
            THEN IF req.fault = "readfile" \/ plugin.dir \notin dirs
                 THEN Respond(o, 500, "open: no such file or directory")
                 ELSE [o EXCEPT !.status = 200, !.binary = TRUE,
                                !.responses = @ + 1]
            ELSE Respond([o EXCEPT !.plugin = Triple(plugin)], 200, "")

\* the loop that appends to the filtered list the plugins with the name,
\* from plugin i on
RECURSIVE FilterName(_, _, _)
FilterName(plugins, plName, i) ==
  IF i > Len(plugins) THEN <<>>
  ELSE (IF plugins[i].name = plName THEN <<plugins[i]>> ELSE <<>>)
         \o FilterName(plugins, plName, i + 1)

\* the filter by type left out
FilterTypeNone(plugins, plType, i) == plugins

\* the loop that appends to the filtered list the plugins of the type
RECURSIVE FilterType(_, _, _)
FilterType(plugins, plType, i) ==
  IF i > Len(plugins) THEN <<>>
  ELSE (IF plugins[i].type = plType THEN <<plugins[i]>> ELSE <<>>)
         \o FilterType(plugins, plType, i + 1)

\* getPlugins(mm, detail, h, plName, plType)
getPlugins(cat, avail, detail, plName, plType) ==
  LET plugins == [loaded |-> [i \in 1..Len(cat) |-> Triple(cat[i])],
                  available |-> IF detail THEN avail ELSE <<>>]
      byName == IF plName # ""
                THEN [loaded |-> FilterName(plugins.loaded, plName, 1),
                      available |-> FilterName(plugins.available, plName, 1)]
                ELSE plugins
      byType == IF plType # ""
                THEN [loaded |-> FilterType(byName.loaded, plType, 1),
                      available |-> FilterType(byName.available, plType, 1)]
                ELSE byName
  IN  byType

\* Server.getPlugins
getPluginsHandler(req, cat, dirs, avail) ==
  Respond([NoOut(cat, dirs) EXCEPT
             !.list = getPlugins(cat, avail, req.details, req.name, req.type)],
          200, "")

(***************************************************************************)
(* REST: the state machine.  One request is handled at a time; resp keeps  *)
(* the request, the catalog before it and the handler's outcome until the  *)
(* client has read the response.                                           *)
(***************************************************************************)
NoResp == [op |-> "none", req |-> NoReq, pre |-> <<>>, out |-> NoOut(<<>>, {})]

TrustLevels == {0, 1, 2}

RestInit ==
  /\ catalog = <<>>
  /\ tmpDirs = {}
  /\ trustLevel \in TrustLevels
  /\ resp = NoResp
  /\ available = <<>>

Handle(req, o) ==
  /\ catalog' = o.cat
  /\ tmpDirs' = o.dirs
  /\ resp' = [op |-> req.op, req |-> req, pre |-> catalog,
              out |-> [o EXCEPT !.cat = <<>>, !.dirs = {}]]
  /\ UNCHANGED <<trustLevel, available, daemonVars, cliVars, loadVars, procVars>>

\* POST /plugins
LoadPlugin ==
  /\ resp.op = "none"
  /\ Cardinality(tmpDirs) < MaxDirs
  /\ \E req \in LoadRequests :
       Handle(req, loadPlugin(req, catalog, tmpDirs, trustLevel))

\* DELETE /plugins/:type/:name/:version
UnloadPlugin ==
  /\ resp.op = "none"
  /\ \E req \in UnloadRequests :
       Handle(req, unloadPlugin(req, catalog, tmpDirs))

\* POST /plugins/:type/:name/:version
SwapPlugins ==
  /\ resp.op = "none"
  /\ Cardinality(tmpDirs) < MaxDirs
  /\ \E req \in SwapRequests :
       Handle(req, swapPlugins(req, catalog, tmpDirs, trustLevel))

\* the client reads the response
Deliver ==
  /\ resp.op # "none"
  /\ resp' = NoResp
  /\ UNCHANGED <<catalog, tmpDirs, trustLevel, available, daemonVars, cliVars, loadVars, procVars>>

\* the plugins the catalog may hold when it is queried
QueryPlugins ==
  {[type |-> "collector", name |-> "mock", version |-> 1],
   [type |-> "collector", name |-> "mock", version |-> 2],
   [type |-> "processor", name |-> "passthru", version |-> 1],
   [type |-> "processor", name |-> "mock", version |-> 1]}

\* the catalogs of up to MaxCatalog different plugins, each with its
\* artifact in a directory of its own
QueryCatalogs ==
  UNION {{[i \in 1..n |-> [type |-> c[i].type, name |-> c[i].name,
                            version |-> c[i].version, dir |-> i]] :
            c \in {d \in [1..n -> QueryPlugins] :
                     \A i, j \in 1..n : d[i] = d[j] => i = j}} :
         n \in 0..MaxCatalog}

\* up to MaxAvailable running instances of the plugins of a catalog
AvailableOf(cat) ==
  UNION {[1..n -> Triples(cat)] : n \in 0..MaxAvailable}

\* a catalog after some loads, with running instances
QueryInit ==
  /\ catalog \in QueryCatalogs
  /\ tmpDirs = {catalog[i].dir : i \in 1..Len(catalog)}
  /\ available \in AvailableOf(catalog)
  /\ trustLevel = 0
  /\ resp = NoResp

\* GET /plugins/:type/:name/:version
GetPlugin ==
  /\ resp.op = "none"
  /\ \E req \in GetPluginRequests :
       Handle(req, getPlugin(req, catalog, tmpDirs))

\* GET /plugins, GET /plugins/:type, GET /plugins/:type/:name
GetPlugins ==
  /\ resp.op = "none"
  /\ \E req \in GetPluginsRequests :
       Handle(req, getPluginsHandler(req, catalog, tmpDirs, available))

QueryNext == GetPlugin \/ GetPlugins \/ Deliver

(***************************************************************************)
(* REST: the claims.                                                       *)
(***************************************************************************)
\* the parts break the order: no part, a signature first, a second part
\* that is no signature, or more than two parts
OrderViolation(parts) ==
  \/ Len(parts) = 0
  \/ Ext(parts[1]) = AscExt
  \/ (Len(parts) >= 2 /\ Ext(parts[2]) # AscExt)
  \/ Len(parts) > 2

\* a multipart request that nothing in the environment disturbs
Undisturbed(req) == req.ctype = "multipart" /\ req.fault = "none"

\* the requested plugin that reaches the catalog for the request of resp
RequestedOf(r) ==
  [err |-> "", path |-> r.out.dir, content |-> r.req.bin,
   checkSum |-> Sum256(r.req.bin), signature |-> Len(r.req.parts) = 2]

\* C1: a POST /plugins whose parts violate the enforced order (a signature
\* first, a second part that is no signature, more than two parts, no part)
\* is answered 400 and never reaches the catalog Load.
C1_OrderViolationAnswered400 ==
  (resp.op = "load" /\ Undisturbed(resp.req) /\ OrderViolation(resp.req.parts))
    => (resp.out.status = 400 /\ resp.out.loadCalls = 0)

\* C2: a POST /plugins that passes part and checksum validation invokes Load
\* exactly once and answers by its outcome: 201 with exactly one loaded
\* plugin on success, 409 on "plugin is already loaded", 500 on any other
\* error.
C2_LoadOutcomeDecidesStatus ==
  (resp.op = "load" /\ Undisturbed(resp.req) /\ ~OrderViolation(resp.req.parts))
    => LET l == CatalogLoad(resp.pre, trustLevel, RequestedOf(resp)) IN
       /\ resp.out.loadCalls = 1
       /\ resp.out.responses = 1
       /\ (l.err = "" =>
             /\ resp.out.status = 201
             /\ resp.out.loaded = <<PluginMeta(resp.req.bin)>>)
       /\ (l.err = PluginAlreadyLoaded => resp.out.status = 409)
       /\ (l.err \notin {"", PluginAlreadyLoaded} => resp.out.status = 500)

C2_Witness ==
  /\ resp.op = "load" /\ Undisturbed(resp.req) /\ ~OrderViolation(resp.req.parts)
  /\ resp.out.status = 409
  /\ resp.out.loadCalls = 1

\* C3: after a POST /plugins that ends with a response other than 201, the
\* temporary directory writeFile created for the upload is gone from disk.
C3_FailedLoadLeavesNoTempDir ==
  (resp.op = "load" /\ resp.req.fault \in {"none", "corrupt"}
     /\ resp.out.responses = 1 /\ resp.out.status # 201 /\ resp.out.dir # 0)
    => resp.out.dir \notin tmpDirs

\* the swap of resp reached the catalog, and names a loaded plugin A
SwapOfLoaded ==
  /\ resp.op = "swap"
  /\ resp.out.swapCalls = 1
  /\ ParamPlugin(resp.req) \in Triples(resp.pre)

\* the Load of B, the uploaded plugin, on the catalog before the swap
LoadOfB == CatalogLoad(resp.pre, trustLevel, RequestedOf(resp))

\* C4 as claimed (for B other than A): after swap(A->B) with B valid the catalog holds B and not
\* A and the response is 201 naming A unloaded and B loaded; with B invalid
\* (its load fails) the catalog holds A and does not hold B.
C4_SwapAsClaimed ==
  (SwapOfLoaded /\ PluginMeta(resp.req.bin) # ParamPlugin(resp.req)) =>
    LET A == ParamPlugin(resp.req)
        B == PluginMeta(resp.req.bin)
    IN  IF LoadOfB.err = ""
        THEN /\ B \in Triples(catalog) /\ A \notin Triples(catalog)
             /\ resp.out.status = 201
             /\ resp.out.unloaded = <<A>> /\ resp.out.loaded = <<B>>
        ELSE A \in Triples(catalog) /\ B \notin Triples(catalog)

\* C4 as amended: with B valid as claimed; with B's load failing the catalog
\* is exactly as before the swap: it holds A, and holds B only if B was
\* loaded before the swap.
C4_SwapReplacesOrKeeps ==
  SwapOfLoaded =>
    LET A == ParamPlugin(resp.req)
        B == PluginMeta(resp.req.bin)
    IN  IF LoadOfB.err = ""
        THEN /\ B \in Triples(catalog) /\ A \notin Triples(catalog)
             /\ resp.out.status = 201
             /\ resp.out.unloaded = <<A>> /\ resp.out.loaded = <<B>>
        ELSE /\ catalog = resp.pre
             /\ A \in Triples(catalog)
             /\ (B \in Triples(catalog) <=> B \in Triples(resp.pre))

C4_Witness ==
  /\ SwapOfLoaded
  /\ LoadOfB.err = PluginAlreadyLoaded
  /\ PluginMeta(resp.req.bin) # ParamPlugin(resp.req)
  /\ PluginMeta(resp.req.bin) \in Triples(catalog)

\* C5: a DELETE with valid fields that names a plugin the catalog does not
\* hold is answered 404.
C5_UnloadAbsentAnswered404 ==
  (resp.op = "unload" /\ resp.req.version \in {"1", "2"}
     /\ resp.req.name # "" /\ resp.req.type # ""
     /\ ParamPlugin(resp.req) \notin Triples(resp.pre))
    => resp.out.status = 404

\* C6: a DELETE whose version is no integer, or whose name or type is
\* empty, is answered 400 without a call of Unload and leaves the catalog
\* as it was; the version is checked before the name, the name before the
\* type.
C6_UnloadRejectsBadParams ==
  (resp.op = "unload"
     /\ (resp.req.version \notin {"1", "2"} \/ resp.req.name = "" \/ resp.req.type = ""))
    => /\ resp.out.status = 400
       /\ resp.out.responses = 1
       /\ resp.out.unloadCalls = 0
       /\ catalog = resp.pre
       /\ resp.out.msg =
            IF resp.req.version \notin {"1", "2"} THEN "invalid version"
            ELSE IF resp.req.name = "" THEN "missing plugin name"
            ELSE "missing plugin type"

C6_Witness ==
  /\ resp.op = "unload"
  /\ resp.req.version = "x" /\ resp.req.name = "" /\ resp.req.type = ""
  /\ resp.out.status = 400 /\ resp.out.msg = "invalid version"
  /\ catalog # <<>>

\* C8: a POST /plugins in which the SHA-256 of the bytes received for the
\* first part differs from the checksum of the file persisted on disk is
\* answered 500 without a call of Load.
C8_ChecksumMismatchAnswered500 ==
  (resp.op = "load" /\ resp.req.ctype = "multipart" /\ resp.out.dir # 0
     /\ resp.req.fault \notin {"mkdir", "create"}
     /\ Sum256(FileContent(resp.req)) # Sum256(resp.req.bin))
    => (resp.out.status = 500 /\ resp.out.loadCalls = 0)

C8_Witness ==
  /\ resp.op = "load" /\ Len(resp.req.parts) = 2
  /\ Sum256(FileContent(resp.req)) # Sum256(resp.req.bin)
  /\ resp.out.status = 500 /\ resp.out.loadCalls = 0
  /\ resp.out.msg = "Error: CheckSum mismatch on requested plugin to load"

(***************************************************************************)
(* snapd: start-up in action() and the signal goroutine of                 *)
(* startInterruptHandling.  A Start or a Stop of a module is two steps, its *)
(* call and its return, so that the two goroutines interleave.             *)
(***************************************************************************)
\* coreModules with the scheduler put before plugin control
CoreModulesSchedulerFirst(c) ==
  <<"scheduler", "control">> \o (IF c.tribe THEN <<"tribe">> ELSE <<>>)

\* coreModules as action() builds it: control, scheduler, tribe when enabled
CoreModules(c) ==
  <<"control", "scheduler">> \o (IF c.tribe THEN <<"tribe">> ELSE <<>>)

\* what Start of a module returns in this run ("" stands for nil)
StartError(c, m) == IF c.failing = m THEN "start failed" ELSE ""

\* the flags at their default values, on a host of MaxCPU CPUs; no module
\* fails to start
DefaultSettings ==
  [tribe |-> FALSE, failing |-> "none", maxProcs |-> 1, numCPU |-> MaxCPU,
   logLevel |-> 3, pluginTrust |-> 1, keyring |-> "", autodiscover |-> <<>>]

\* the values of --log-level, --plugin-trust and --keyring-files of a run
LogLevelFlags == {0, 1, 5, 6}
PluginTrustFlags == {-1, 0, 2, 3}
KeyringFlags == {"", "k"}

\* the settings of a run of snapd
Settings ==
  {c \in [tribe : BOOLEAN, failing : {"none", "control", "scheduler", "tribe"},
          maxProcs : {DefaultSettings.maxProcs}, numCPU : {MaxCPU},
          logLevel : LogLevelFlags, pluginTrust : PluginTrustFlags,
          keyring : KeyringFlags,
          autodiscover : {DefaultSettings.autodiscover}] :
     c.failing = "tribe" => c.tribe}

\* the values of --max-procs and the hosts on which setMaxProcs is studied
MaxProcsSettings ==
  {[DefaultSettings EXCEPT !.maxProcs = m, !.numCPU = n] :
     m \in (0 - 2)..(MaxCPU + 2), n \in 1..MaxCPU}

\* setMaxProcs without the limit of the CPUs of the host
setMaxProcsUnlimited(maxProcs, numProcs) ==
  IF maxProcs <= 0 THEN 1 ELSE maxProcs

\* setMaxProcs: the value it gives to runtime.GOMAXPROCS
setMaxProcs(maxProcs, numProcs) ==
  IF maxProcs <= 0 THEN 1
  ELSE IF maxProcs <= numProcs THEN maxProcs
  ELSE numProcs

\* validateLevelSettings with the trust level left unchecked
validateLevelSettingsLogOnly(logLevel, pluginTrust) ==
  IF logLevel < 1 \/ logLevel > 5 THEN "log level was invalid (needs: 1-5)"
  ELSE ""

\* validateLevelSettings: the message of its log.Fatal, "" when it returns
validateLevelSettings(logLevel, pluginTrust) ==
  IF logLevel < 1 \/ logLevel > 5 THEN "log level was invalid (needs: 1-5)"
  ELSE IF pluginTrust < 0 \/ pluginTrust > 2
  THEN "Plugin trust was invalid (needs: 0-2)"
  ELSE ""

\* filepath.SplitList
SplitList(paths) == IF paths = "" THEN <<>> ELSE <<paths>>

\* the keyring check of action(): the message of its log.Fatal, "" when
\* action() goes on; the keyring files that are named exist and can be read
keyringCheck(pluginTrust, keyringPaths) ==
  IF pluginTrust > 0
  THEN LET keyrings == SplitList(keyringPaths) IN
       IF Len(keyrings) = 0
       THEN "need keyring file when trust is on (--keyring-file or -k)"
       ELSE ""
  ELSE ""

AciExt == <<".", "a", "c", "i">>

\* strings.HasSuffix
HasSuffix(str, suffix) ==
  /\ Len(str) >= Len(suffix)
  /\ SubSeq(str, Len(str) - Len(suffix) + 1, Len(str)) = suffix

\* the entries a directory of --auto-discover may hold, in the order of their
\* names, which is the order of ioutil.ReadDir: a plugin, its signature, a
\* file that cannot be read, a plugin that fails to load, a signature that
\* cannot be read, a directory and an image.  readable: the file can be
\* opened and read; loadable: Load of the plugin built from it succeeds
DirEntries ==
  << [name |-> <<"a">>, isDir |-> FALSE, readable |-> TRUE, loadable |-> TRUE],
     [name |-> <<"a">> \o AscExt, isDir |-> FALSE, readable |-> TRUE,
      loadable |-> FALSE],
     [name |-> <<"b">>, isDir |-> FALSE, readable |-> FALSE, loadable |-> FALSE],
     [name |-> <<"c">>, isDir |-> FALSE, readable |-> TRUE, loadable |-> FALSE],
     [name |-> <<"c">> \o AscExt, isDir |-> FALSE, readable |-> FALSE,
      loadable |-> FALSE],
     [name |-> <<"d">>, isDir |-> TRUE, readable |-> FALSE, loadable |-> FALSE],
     [name |-> <<"e">> \o AciExt, isDir |-> FALSE, readable |-> TRUE,
      loadable |-> TRUE] >>

\* what ioutil.ReadDir may return for a directory of at most n files
Listings(n) ==
  {[i \in 1..Len(ix) |-> DirEntries[ix[i]]] :
     ix \in {jx \in UNION {[1..k -> 1..Len(DirEntries)] : k \in 0..n} :
               \A i \in 1..(Len(jx) - 1) : jx[i] < jx[i + 1]}}

\* a directory named by --auto-discover: one ReadDir fails on, or one with
\* a listing
Directories(n) ==
  {[readable |-> FALSE, files |-> <<>>]}
    \cup {[readable |-> TRUE, files |-> l] : l \in Listings(n)}

RECURSIVE FilesIn(_)
FilesIn(paths) ==
  IF paths = <<>> THEN 0 ELSE Len(Head(paths).files) + FilesIn(Tail(paths))

\* filepath.SplitList(autodiscoverPath) with what each directory holds
AutodiscoverPaths ==
  {ps \in UNION {[1..k -> Directories(MaxFiles)] : k \in 0..MaxPaths} :
     FilesIn(ps) <= MaxFiles}

\* the settings of a run that gets through start-up, with and without tribe
\* and for every value of --auto-discover
StartupSettings ==
  {[DefaultSettings EXCEPT !.tribe = t, !.keyring = "k", !.autodiscover = a] :
     t \in BOOLEAN, a \in AutodiscoverPaths}

\* the body of the loop over the files of a directory, for one file: whether
\* c.Load is called, the errors logged, and whether the body panics.  When
\* core.NewRequestedPlugin fails the error is logged and the body goes on
\* with a nil rp: ReadSignatureFile stores what it read through rp, and Load
\* reads the path of rp, so the first of the two that gets that far panics
discoverFile(file, files) ==
  IF file.isDir THEN [load |-> FALSE, logged |-> 0, panic |-> FALSE]
  ELSE IF HasSuffix(file.name, AciExt) \/ ~HasSuffix(file.name, AscExt)
  THEN LET rpNil == ~file.readable
           sigs == {i \in 1..Len(files) : files[i].name = file.name \o AscExt}
           sigRead == \E i \in sigs : ~files[i].isDir /\ files[i].readable
           logged == (IF rpNil THEN 1 ELSE 0)
                       + (IF sigs # {} /\ ~sigRead THEN 1 ELSE 0)
       IN  IF rpNil /\ sigRead
           THEN [load |-> FALSE, logged |-> logged, panic |-> TRUE]
           ELSE IF rpNil
           THEN [load |-> TRUE, logged |-> logged, panic |-> TRUE]
           ELSE [load |-> TRUE,
                 logged |-> logged + (IF file.loadable THEN 0 ELSE 1),
                 panic |-> FALSE]
  ELSE [load |-> FALSE, logged |-> 0, panic |-> FALSE]

NoDiscovery == [attempts |-> <<>>, logged |-> 0, end |-> "none"]

\* for _, file := range files
RECURSIVE discoverFiles(_, _, _, _)
discoverFiles(p, files, i, acc) ==
  IF i > Len(files) THEN acc
  ELSE LET r == discoverFile(files[i], files)
           acc1 == [acc EXCEPT
                      !.attempts = IF r.load
                                   THEN Append(@, <<p, files[i].name>>) ELSE @,
                      !.logged = @ + r.logged]
       IN  IF r.panic THEN [acc1 EXCEPT !.end = "panic"]
           ELSE discoverFiles(p, files, i + 1, acc1)

\* for _, p := range paths: an error of ioutil.ReadDir is fatal
RECURSIVE discoverPaths(_, _, _)
discoverPaths(paths, p, acc) ==
  IF p > Len(paths) THEN [acc EXCEPT !.end = "done"]
  ELSE IF ~paths[p].readable THEN [acc EXCEPT !.end = "fatal"]
  ELSE LET acc1 == discoverFiles(p, paths[p].files, 1, acc) IN
       IF acc1.end = "panic" THEN acc1 ELSE discoverPaths(paths, p + 1, acc1)

\* the autodiscovery of action(): the Load calls it makes, as <<index of the
\* path, name of the file>>, the number of errors it logs, and how it ends
autodiscover(paths) ==
  IF paths = <<>> THEN [NoDiscovery EXCEPT !.end = "disabled"]
  ELSE discoverPaths(paths, 1, NoDiscovery)

\* monitorErrors after the receive from the channel: the exit status, -1
\* when it just returns
monitorErrors(ok) == IF ~ok THEN -1 ELSE 1

At(pc, i) == [at |-> pc, i |-> i]

Event(who, what, m) == [who |-> who, what |-> what, m |-> m]

DaemonStart ==
  /\ mainPc = At("setMaxProcs", 0)
  /\ sigPc = At("off", 0)
  /\ monPc = At("off", 0)
  /\ started = <<>>
  /\ events = <<>>
  /\ exitCode = -1
  /\ gomaxprocs = 0
  /\ loads = {}
  /\ discovered = NoDiscovery

DaemonInit == cfg \in Settings /\ DaemonStart

StartupInit == cfg \in StartupSettings /\ DaemonStart

Running == exitCode = -1

\* setMaxProcs(maxProcs)
SetMaxProcs ==
  /\ Running /\ mainPc.at = "setMaxProcs"
  /\ gomaxprocs' = setMaxProcs(cfg.maxProcs, cfg.numCPU)
  /\ mainPc' = At("validate", 0)
  /\ UNCHANGED <<sigPc, cfg, started, events, exitCode, monPc,
                 restVars, cliVars, loadVars, procVars>>

\* log.Fatal: the process exits with status 1
Fatal ==
  /\ exitCode' = 1
  /\ mainPc' = At("exited", 0)

\* validateLevelSettings(logLevel, pluginTrust)
ValidateLevelSettings ==
  /\ Running /\ mainPc.at = "validate"
  /\ IF validateLevelSettings(cfg.logLevel, cfg.pluginTrust) # ""
     THEN Fatal
     ELSE mainPc' = At("init", 0) /\ exitCode' = exitCode
  /\ UNCHANGED <<sigPc, cfg, started, events, gomaxprocs, monPc,
                 restVars, cliVars, loadVars, procVars>>

\* action() up to startInterruptHandling(coreModules...), which registers
\* the signals and starts the signal goroutine
StartInterruptHandling ==
  /\ Running /\ mainPc.at = "init"
  /\ mainPc' = At("start", 1)
  /\ sigPc' = At("wait", 0)
  /\ UNCHANGED <<cfg, started, events, exitCode, gomaxprocs, monPc,
               restVars, cliVars, loadVars, procVars>>

\* the start loop calls startModule(m), which calls m.Start()
StartCall ==
  /\ Running /\ mainPc.at = "start"
  /\ mainPc.i <= Len(CoreModules(cfg))
  /\ events' = Append(events, Event("main", "StartCall", CoreModules(cfg)[mainPc.i]))
  /\ mainPc' = At("inStart", mainPc.i)
  /\ UNCHANGED <<sigPc, cfg, started, exitCode, gomaxprocs, monPc,
               restVars, cliVars, loadVars, procVars>>

\* m.Start() returns: on nil the module joins started, on an error the
\* loop turns to stopping the modules started so far
StartReturn ==
  /\ Running /\ mainPc.at = "inStart"
  /\ LET m == CoreModules(cfg)[mainPc.i] IN
     IF StartError(cfg, m) = ""
     THEN /\ events' = Append(events, Event("main", "StartOk", m))
          /\ started' = Append(started, m)
          /\ mainPc' = At("start", mainPc.i + 1)
     ELSE /\ events' = Append(events, Event("main", "StartErr", m))
          /\ started' = started
          /\ mainPc' = At("unwind", 1)
  /\ UNCHANGED <<sigPc, cfg, exitCode, gomaxprocs, monPc,
               restVars, cliVars, loadVars, procVars>>

\* after a failed Start: m.Stop() on the next started module is called
UnwindStopCall ==
  /\ Running /\ mainPc.at = "unwind"
  /\ mainPc.i <= Len(started)
  /\ events' = Append(events, Event("main", "StopCall", started[mainPc.i]))
  /\ mainPc' = At("inUnwindStop", mainPc.i)
  /\ UNCHANGED <<sigPc, cfg, started, exitCode, gomaxprocs, monPc,
               restVars, cliVars, loadVars, procVars>>

UnwindStopReturn ==
  /\ Running /\ mainPc.at = "inUnwindStop"
  /\ events' = Append(events, Event("main", "StopRet", started[mainPc.i]))
  /\ mainPc' = At("unwind", mainPc.i + 1)
  /\ UNCHANGED <<sigPc, cfg, started, exitCode, gomaxprocs, monPc,
               restVars, cliVars, loadVars, procVars>>

\* printErrorAndExit: log.Fatal exits with status 1
PrintErrorAndExit ==
  /\ Running /\ mainPc.at = "unwind"
  /\ mainPc.i > Len(started)
  /\ Fatal
  /\ UNCHANGED <<sigPc, cfg, started, events, gomaxprocs, monPc,
               restVars, cliVars, loadVars, procVars>>

\* every module has started
StartDone ==
  /\ Running /\ mainPc.at = "start"
  /\ mainPc.i > Len(CoreModules(cfg))
  /\ mainPc' = At("trust", 0)
  /\ UNCHANGED <<sigPc, cfg, started, events, exitCode, gomaxprocs, monPc,
               restVars, cliVars, loadVars, procVars>>

\* c.SetPluginTrustLevel(pluginTrust)
SetPluginTrustLevel ==
  /\ Running /\ mainPc.at = "trust"
  /\ trustLevel' = cfg.pluginTrust
  /\ mainPc' = At("keyring", 0)
  /\ UNCHANGED <<sigPc, cfg, started, events, exitCode, gomaxprocs, monPc,
                 catalog, tmpDirs, resp, available, cliVars, loadVars, procVars>>

\* the keyring files are checked when the trust level is above 0
KeyringCheck ==
  /\ Running /\ mainPc.at = "keyring"
  /\ IF keyringCheck(cfg.pluginTrust, cfg.keyring) # ""
     THEN Fatal
     ELSE mainPc' = At("autodiscover", 0) /\ exitCode' = exitCode
  /\ UNCHANGED <<sigPc, cfg, started, events, gomaxprocs, monPc,
                 restVars, cliVars, loadVars, procVars>>

\* c.SetPluginTrustLevel has been called
TrustLevelSet == mainPc.at \in {"keyring", "autodiscover", "api", "serving"}

\* the keyring step of action() is over: the keyring files are set
KeyringSet == mainPc.at \in {"autodiscover", "api", "serving"}

\* a Load call on plugin control, with what was set on it at that time
LoadCall(by) == [by |-> by, trust |-> TrustLevelSet, keyring |-> KeyringSet]

\* a panic on the main goroutine ends the process with status 2
PanicExit ==
  /\ exitCode' = 2
  /\ mainPc' = At("exited", 0)

\* the autodiscovery of action(), from if autodiscoverPath != "" to its end
Autodiscover ==
  /\ Running /\ mainPc.at = "autodiscover"
  /\ LET d == autodiscover(cfg.autodiscover) IN
       /\ discovered' = d
       /\ loads' = IF d.attempts = <<>> THEN loads
                   ELSE loads \cup {LoadCall("autodiscover")}
       /\ CASE d.end = "fatal" -> Fatal
            [] d.end = "panic" -> PanicExit
            [] OTHER -> mainPc' = At("api", 0) /\ exitCode' = exitCode
  /\ UNCHANGED <<sigPc, cfg, started, events, gomaxprocs, monPc,
                 restVars, cliVars, procVars>>

\* tribe, once its Start has returned, replays a plugin-loaded intent it
\* receives from a peer into the catalog it was given by SetPluginCatalog(c)
TribeReplay ==
  /\ Running /\ cfg.tribe
  /\ \E i \in 1..Len(events) : events[i] = Event("main", "StartOk", "tribe")
  /\ loads' = loads \cup {LoadCall("tribe")}
  /\ UNCHANGED <<daemonVars, discovered, restVars, cliVars, procVars>>

\* POST /plugins reaches loadPlugin once the REST API is started, and
\* loadPlugin calls Load on the plugin control bound by BindMetricManager(c)
RestLoad ==
  /\ Running /\ mainPc.at = "serving"
  /\ loads' = loads \cup {LoadCall("rest")}
  /\ UNCHANGED <<daemonVars, discovered, restVars, cliVars, procVars>>

\* the REST API is started and go monitorErrors(r.Err()) watches its error
\* channel; action() goes on to select {}
StartApi ==
  /\ Running /\ mainPc.at = "api"
  /\ monPc' = At("wait", 0)
  /\ mainPc' = At("serving", 0)
  /\ UNCHANGED <<sigPc, cfg, started, events, exitCode, gomaxprocs,
                 restVars, cliVars, loadVars, procVars>>

\* monitorErrors: _, ok := <-ch delivers an error (ok) or the closing of the
\* channel (not ok)
MonitorErrors ==
  /\ Running /\ monPc.at = "wait"
  /\ \E ok \in BOOLEAN :
       /\ exitCode' = monitorErrors(ok)
       /\ monPc' = IF ok THEN At("error", 0) ELSE At("closed", 0)
  /\ UNCHANGED <<mainPc, sigPc, cfg, started, events, gomaxprocs,
                 restVars, cliVars, loadVars, procVars>>

\* the modules of startInterruptHandling(modules...) in the order of its loop
StopOrder(c) == CoreModules(c)

\* sig := <-c: an interrupt or SIGTERM arrives
Signal ==
  /\ Running /\ sigPc.at = "wait"
  /\ sigPc' = At("stop", 1)
  /\ UNCHANGED <<mainPc, cfg, started, events, exitCode, gomaxprocs, monPc,
               restVars, cliVars, loadVars, procVars>>

\* the signal goroutine calls m.Stop() on the next module
SignalStopCall ==
  /\ Running /\ sigPc.at = "stop"
  /\ sigPc.i <= Len(StopOrder(cfg))
  /\ events' = Append(events, Event("signal", "StopCall", StopOrder(cfg)[sigPc.i]))
  /\ sigPc' = At("inStop", sigPc.i)
  /\ UNCHANGED <<mainPc, cfg, started, exitCode, gomaxprocs, monPc,
               restVars, cliVars, loadVars, procVars>>

SignalStopReturn ==
  /\ Running /\ sigPc.at = "inStop"
  /\ events' = Append(events, Event("signal", "StopRet", StopOrder(cfg)[sigPc.i]))
  /\ sigPc' = At("stop", sigPc.i + 1)
  /\ UNCHANGED <<mainPc, cfg, started, exitCode, gomaxprocs, monPc,
               restVars, cliVars, loadVars, procVars>>

\* os.Exit(0) after the loop
SignalExit ==
  /\ Running /\ sigPc.at = "stop"
  /\ sigPc.i > Len(StopOrder(cfg))
  /\ exitCode' = 0
  /\ sigPc' = At("exited", 0)
  /\ UNCHANGED <<mainPc, cfg, started, events, gomaxprocs, monPc,
               restVars, cliVars, loadVars, procVars>>

DaemonNext ==
  \/ SetMaxProcs \/ ValidateLevelSettings
  \/ StartInterruptHandling \/ StartCall \/ StartReturn
  \/ UnwindStopCall \/ UnwindStopReturn \/ PrintErrorAndExit \/ StartDone
  \/ SetPluginTrustLevel \/ KeyringCheck \/ Autodiscover \/ StartApi
  \/ MonitorErrors
  \/ Signal \/ SignalStopCall \/ SignalStopReturn \/ SignalExit

\* snapd with no signal sent to it, and the Load calls that reach plugin
\* control from autodiscovery, from tribe and from the REST API
StartupNext ==
  \/ SetMaxProcs \/ ValidateLevelSettings
  \/ StartInterruptHandling \/ StartCall \/ StartReturn \/ StartDone
  \/ SetPluginTrustLevel \/ KeyringCheck \/ Autodiscover \/ StartApi
  \/ MonitorErrors \/ TribeReplay \/ RestLoad

(***************************************************************************)
(* snapd: the claims.                                                      *)
(***************************************************************************)
\* the modules named by the events of one goroutine and one kind, in order
ModulesOf(evs, who, what) ==
  LET sel == SelectSeq(evs, LAMBDA e : e.who = who /\ e.what = what) IN
  [i \in 1..Len(sel) |-> sel[i].m]

IsPrefix(s, t) == Len(s) <= Len(t) /\ SubSeq(t, 1, Len(s)) = s

\* start-up is over, and the signal goroutine made its calls after it
SignalAfterStartup ==
  /\ mainPc.at = "serving"
  /\ \A i, j \in 1..Len(events) :
       (events[i].who = "main" /\ events[j].who = "signal") => i < j

\* C7: on a termination signal the modules are stopped in the order
\* scheduler, catalog (plugin control), tribe; each Stop returns before the
\* next is called, and the process exits only after all have returned.
C7_StopsSchedulerControlTribe ==
  SignalAfterStartup =>
  LET calls == ModulesOf(events, "signal", "StopCall")
      rets == ModulesOf(events, "signal", "StopRet")
      order == <<"scheduler", "control">>
                 \o (IF cfg.tribe THEN <<"tribe">> ELSE <<>>)
  IN  /\ IsPrefix(calls, order)
      /\ IsPrefix(rets, calls)
      /\ Len(calls) <= Len(rets) + 1
      /\ (exitCode = 0 => rets = order)

\* C19: start-up starts the modules one at a time in the order plugin
\* control, scheduler, tribe (when enabled); when a Start fails, start-up
\* stops every module started before it, starts no later module, does not
\* stop the failing module, and ends the daemon with a fatal error.
C19_StartOrderAndUnwind ==
  LET order == <<"control", "scheduler">>
                 \o (IF cfg.tribe THEN <<"tribe">> ELSE <<>>)
      calls == ModulesOf(events, "main", "StartCall")
      oks == ModulesOf(events, "main", "StartOk")
      errs == ModulesOf(events, "main", "StartErr")
      stops == ModulesOf(events, "main", "StopCall")
      stopped == ModulesOf(events, "main", "StopRet")
  IN  /\ IsPrefix(calls, order)
      /\ IsPrefix(oks, calls)
      /\ Len(calls) <= Len(oks) + Len(errs) + 1
      /\ Len(errs) <= 1
      /\ (errs = <<>> => stops = <<>>)
      /\ (errs # <<>> =>
            /\ calls = oks \o errs
            /\ errs[1] = cfg.failing
            /\ IsPrefix(stops, oks) /\ IsPrefix(stopped, stops)
            /\ \A i \in 1..Len(stops) : stops[i] # errs[1]
            /\ mainPc.at \in {"unwind", "inUnwindStop", "exited"}
            /\ (mainPc.at = "exited" => (stopped = oks /\ exitCode = 1)))
      /\ (mainPc.at \in {"trust", "keyring", "autodiscover", "api", "serving"} =>
            (calls = order /\ oks = order))

C19_Witness ==
  /\ cfg.tribe /\ cfg.failing = "tribe"
  /\ mainPc.at = "exited" /\ exitCode = 1
  /\ sigPc.at = "wait"
  /\ ModulesOf(events, "main", "StartCall") = <<"control", "scheduler", "tribe">>
  /\ ModulesOf(events, "main", "StopRet") = <<"control", "scheduler">>

\* C13: snapd aborts with a non-zero exit status, and goes no further, for a
\* log level outside 1..5, for a trust level outside 0..2, for a trust
\* level above 0 with no keyring file given, and for an error on the error
\* channel of the REST API; when that channel is closed without an error
\* the daemon does not exit on that account.
C13_FatalSettingsAbort ==
  LET badLevels == cfg.logLevel \notin 1..5 \/ cfg.pluginTrust \notin 0..2
      noKeyring == cfg.pluginTrust > 0 /\ cfg.keyring = ""
  IN  /\ badLevels =>
            /\ mainPc.at \in {"setMaxProcs", "validate", "exited"}
            /\ exitCode = (IF mainPc.at = "exited" THEN 1 ELSE -1)
            /\ started = <<>> /\ sigPc.at = "off" /\ monPc.at = "off"
      /\ noKeyring =>
            /\ mainPc.at \notin {"autodiscover", "api", "serving"}
            /\ monPc.at = "off"
            /\ (mainPc.at = "exited" => exitCode = 1)
      /\ (monPc.at = "error" => exitCode = 1)
      /\ (monPc.at = "closed" =>
            (exitCode = -1 \/ (exitCode = 0 /\ sigPc.at = "exited")))

C13_Witness ==
  /\ cfg.pluginTrust = 2 /\ cfg.keyring = "" /\ cfg.logLevel = 5
  /\ started = CoreModules(cfg)
  /\ trustLevel = 2
  /\ mainPc.at = "exited" /\ exitCode = 1

\* C11: the value setMaxProcs gives to runtime.GOMAXPROCS is always within
\* 1..host CPUs: a request of 0 or less becomes 1, a request above the CPUs
\* of the host becomes that number, any other request is applied unchanged.
C11_MaxProcsWithinHost ==
  mainPc.at # "setMaxProcs" =>
    /\ gomaxprocs \in 1..cfg.numCPU
    /\ (cfg.maxProcs <= 0 => gomaxprocs = 1)
    /\ (cfg.maxProcs > cfg.numCPU => gomaxprocs = cfg.numCPU)
    /\ (cfg.maxProcs \in 1..cfg.numCPU => gomaxprocs = cfg.maxProcs)

C11_Witness ==
  /\ mainPc.at = "validate"
  /\ cfg.numCPU > 1 /\ cfg.maxProcs > cfg.numCPU
  /\ gomaxprocs = cfg.numCPU

(***************************************************************************)
(* snapctl: the metric commands.                                           *)
(***************************************************************************)
Chars == {"/", "*", "a"}

\* the namespaces a user may type, the empty one included
Namespaces == UNION {[1..n -> Chars] : n \in 0..MaxLen}

WildcardSuffix == <<"/", "*">>

\* the fix of the namespace at the head of listMetrics; a slice expression
\* out of range is a run-time panic
FixNamespace(ns) ==
  IF ns # <<>>
  THEN IF Len(ns) - 2 < 0 THEN [panic |-> TRUE, ns |-> ns]
       ELSE IF SubSeq(ns, Len(ns) - 1, Len(ns)) # WildcardSuffix
       THEN IF SubSeq(ns, Len(ns), Len(ns)) = <<"/">>
            THEN [panic |-> FALSE, ns |-> ns \o <<"*">>]
            ELSE [panic |-> FALSE, ns |-> ns \o WildcardSuffix]
       ELSE [panic |-> FALSE, ns |-> ns]
  ELSE [panic |-> FALSE, ns |-> WildcardSuffix]

\* what a command has done: whether it panicked, whether it called
\* FetchMetrics and with which namespace, whether it called GetMetric and
\* with which namespace, whether it printed an error of the client or the
\* hint that a flag is required, and the exit status of the process
\* and, of init(): the user name and the password given to the client,
\* whether the password was asked for, and the files read
NoCliOut ==
  [panic |-> FALSE, fetched |-> FALSE, query |-> <<>>, got |-> FALSE,
   getQuery |-> <<>>, reported |-> FALSE, usage |-> FALSE, exit |-> -1,
   username |-> "", password |-> <<>>, prompted |-> FALSE, filesRead |-> <<>>,
   namespace |-> <<>>]

\* a run-time panic ends the process with status 2
Panic(o) == [o EXCEPT !.panic = TRUE, !.exit = 2]

\* listMetrics: fix the namespace, fetch, exit with 1 on an error
listMetrics(in) ==
  LET f == FixNamespace(in.ns) IN
  IF f.panic THEN Panic(NoCliOut)
  ELSE LET o == [NoCliOut EXCEPT !.fetched = TRUE, !.query = f.ns] IN
       IF in.fetchErr
       THEN [o EXCEPT !.reported = TRUE, !.exit = 1]
       ELSE [o EXCEPT !.exit = 0]

\* the namespace getMetric hands to FetchMetrics
FetchNamespace == <<"/", "i", "n", "t", "e", "l", "/", "m", "o", "c", "k">>

\* getMetric: an error of the client is printed and the command returns
getMetric(in) ==
  IF ~in.nsSet THEN [NoCliOut EXCEPT !.usage = TRUE, !.exit = 0]
  ELSE IF in.ns = <<>> THEN Panic(NoCliOut)
  ELSE LET wild == in.ns[Len(in.ns)] = "*"
           o == IF wild
                THEN [NoCliOut EXCEPT !.fetched = TRUE, !.query = FetchNamespace]
                ELSE NoCliOut
       IN  IF wild /\ in.fetchErr
           THEN [o EXCEPT !.reported = TRUE, !.exit = 0]
           ELSE LET o1 == [o EXCEPT !.got = TRUE, !.getQuery = in.ns] IN
                IF in.getErr
                THEN [o1 EXCEPT !.reported = TRUE, !.exit = 0]
                ELSE [o1 EXCEPT !.exit = 0]

\* the arguments that matter to the password, a path and another word
ArgWords == {"--password", "-p", "--Password", "-P", "f1", "list"}

\* os.Args: the name of the program, then the arguments
ArgLists ==
  {<<"snapctl">> \o a : a \in UNION {[1..n -> ArgWords] : n \in 0..MaxArgs}}

\* the files a password may be kept in, and what they hold
PassFiles == {"f1", "f2"}

FileText(path) ==
  IF path = "f1" THEN <<" ", "a", "\n">> ELSE <<"b">>

\* what terminal.ReadPassword returns
Prompts ==
  {[err |-> TRUE, val |-> <<>>], [err |-> FALSE, val |-> <<"c">>],
   [err |-> FALSE, val |-> <<"c", " ">>]}

WhiteSpace == {" ", "\n", "\t"}

\* strings.TrimSpace left out
TrimSpaceIdentity(str) == str

\* strings.TrimSpace
TrimSpace(str) ==
  LET black == {i \in 1..Len(str) : str[i] \notin WhiteSpace} IN
  IF black = {} THEN <<>> ELSE SubSeq(str, Min(black), Max(black))

\* ioutil.ReadFile
ReadFile(path, readable) ==
  IF path \in readable THEN [err |-> FALSE, val |-> FileText(path)]
  ELSE [err |-> TRUE, val |-> <<>>]

\* the loop of init() over os.Args, from index idx on (counted from 0)
RECURSIVE ScanArgs(_, _, _)
ScanArgs(args, idx, st) ==
  IF idx >= Len(args) THEN st
  ELSE LET a == args[idx + 1] IN
    CASE a \in {"--password", "-p"} ->
           ScanArgs(args, idx + 1, [st EXCEPT !.passPrompt = TRUE])
      [] a \in {"--Password", "-P"} ->
           ScanArgs(args, idx + 1,
             IF Len(args) >= idx + 2
             THEN [st EXCEPT !.passPathProvided = TRUE, !.passPath = args[idx + 2]]
             ELSE [st EXCEPT !.passPathProvided = TRUE])
      [] OTHER -> ScanArgs(args, idx + 1, st)

\* init(): the user name and the password of the client
initClient(in) ==
  LET st0 == [passPrompt |-> FALSE, passPathProvided |-> in.env # "",
              passPath |-> in.env]
      st == ScanArgs(in.args, 0, st0)
      rf == ReadFile(st.passPath, in.readable)
      fromFile == st.passPathProvided /\ ~st.passPrompt
      pw1 == IF fromFile /\ ~rf.err THEN rf.val ELSE <<>>
      pw2 == IF st.passPrompt
             THEN (IF in.prompt.err THEN <<>> ELSE in.prompt.val)
             ELSE pw1
  IN  [NoCliOut EXCEPT !.username = "snap",
                       !.password = TrimSpace(pw2),
                       !.prompted = st.passPrompt,
                       !.filesRead = IF fromFile THEN <<st.passPath>> ELSE <<>>]

\* strings.Split(str, "/")
RECURSIVE Split(_)
Split(str) ==
  LET slashes == {i \in 1..Len(str) : str[i] = "/"} IN
  IF slashes = {} THEN <<str>>
  ELSE <<SubSeq(str, 1, Min(slashes) - 1)>>
         \o Split(SubSeq(str, Min(slashes) + 1, Len(str)))

\* strings.Join(slice, "/")
RECURSIVE Join(_)
Join(slice) ==
  IF Len(slice) = 0 THEN <<>>
  ELSE IF Len(slice) = 1 THEN slice[1]
  ELSE slice[1] \o <<"/">> \o Join(Tail(slice))

\* the loop of getNamespace writing to slice[v.Index]
RECURSIVE BracketAtIndex(_, _, _)
BracketAtIndex(slice, elements, k) ==
  IF k > Len(elements) THEN slice
  ELSE BracketAtIndex([slice EXCEPT ![elements[k].index + 1] =
                         <<"[">> \o elements[k].name \o <<"]">>], elements, k + 1)

\* the loop of getNamespace over the dynamic elements, from element k on:
\* slice[v.Index+1] of Go is the element at v.index + 2 here
RECURSIVE Bracket(_, _, _)
Bracket(slice, elements, k) ==
  IF k > Len(elements) THEN slice
  ELSE Bracket([slice EXCEPT ![elements[k].index + 2] =
                  <<"[">> \o elements[k].name \o <<"]">>], elements, k + 1)

\* getNamespace
getNamespace(mt) ==
  IF mt.dynamic
  THEN Join(Bracket(Split(mt.namespace), mt.elements, 1))
  ELSE mt.namespace

\* the elements of the namespaces of the metrics, and the names of dynamic
\* elements
ElemNames == {<<"a">>, <<"m", "o">>}
DynamicNames == {<<"h">>, <<"i", "d">>}

\* the namespace of a path: each element after a slash
RECURSIVE NamespaceOf(_)
NamespaceOf(path) ==
  IF path = <<>> THEN <<>>
  ELSE <<"/">> \o Head(path) \o NamespaceOf(Tail(path))

\* the dynamic elements a metric of n elements may declare: at most two, at
\* different places of the namespace
DynamicElementsOf(n) ==
  LET E == [name : DynamicNames, index : 0..(n - 1)] IN
  {<<>>} \cup {<<e>> : e \in E}
    \cup {p \in {<<e, f>> : e \in E, f \in E} : p[1].index # p[2].index}

\* the metrics the server returns
Metrics ==
  UNION {{[path |-> pa, namespace |-> NamespaceOf(pa), dynamic |-> d,
           elements |-> el] :
            pa \in [1..n -> ElemNames], d \in BOOLEAN,
            el \in DynamicElementsOf(n)} : n \in 1..MaxElems}

NoMetric ==
  [path |-> <<>>, namespace |-> <<>>, dynamic |-> FALSE, elements |-> <<>>]

NoCliIn ==
  [cmd |-> "none", ns |-> <<>>, nsSet |-> FALSE, fetchErr |-> FALSE,
   getErr |-> FALSE, args |-> <<>>, env |-> "", readable |-> {},
   prompt |-> [err |-> TRUE, val |-> <<>>], mt |-> NoMetric]

\* a metric of the answer of the server, to be printed
NamespaceInputs ==
  {[NoCliIn EXCEPT !.cmd = "namespace", !.mt = mt] : mt \in Metrics}

\* snapctl's init() with the command line, SNAPCTL_PASS_PATH, the files
\* that can be read and what is typed at the prompt
InitInputs ==
  {[NoCliIn EXCEPT !.cmd = "init", !.args = a, !.env = e, !.readable = r,
                   !.prompt = pr] :
     a \in ArgLists, e \in {"", "f2"}, r \in SUBSET PassFiles, pr \in Prompts}

\* snapctl metric list with its flags and the answer of the server
ListInputs ==
  {[NoCliIn EXCEPT !.cmd = "list", !.ns = ns, !.nsSet = (ns # <<>>),
                   !.fetchErr = fe] :
     ns \in Namespaces, fe \in BOOLEAN}

\* snapctl metric get with its flags and the answers of the server
GetInputs ==
  {[NoCliIn EXCEPT !.cmd = "get", !.ns = ns, !.nsSet = set, !.fetchErr = fe,
                   !.getErr = ge] :
     ns \in Namespaces, set \in BOOLEAN, fe \in BOOLEAN, ge \in BOOLEAN}

CliInputs ==
  ListInputs \cup {in \in GetInputs : ~in.nsSet => in.ns = <<>>}
    \cup InitInputs \cup NamespaceInputs

CliInit ==
  /\ cliIn \in CliInputs
  /\ cliPc = "start"
  /\ cliOut = NoCliOut

\* snapctl metric list
ListMetrics ==
  /\ cliPc = "start" /\ cliIn.cmd = "list"
  /\ cliOut' = listMetrics(cliIn)
  /\ cliPc' = "done"
  /\ UNCHANGED <<cliIn, restVars, daemonVars, loadVars, procVars>>

\* snapctl metric get
GetMetric ==
  /\ cliPc = "start" /\ cliIn.cmd = "get"
  /\ cliOut' = getMetric(cliIn)
  /\ cliPc' = "done"
  /\ UNCHANGED <<cliIn, restVars, daemonVars, loadVars, procVars>>

\* init() of snapctl
InitClient ==
  /\ cliPc = "start" /\ cliIn.cmd = "init"
  /\ cliOut' = initClient(cliIn)
  /\ cliPc' = "done"
  /\ UNCHANGED <<cliIn, restVars, daemonVars, loadVars, procVars>>

\* getNamespace(metric), called for each metric that is printed
GetNamespace ==
  /\ cliPc = "start" /\ cliIn.cmd = "namespace"
  /\ cliOut' = [NoCliOut EXCEPT !.namespace = getNamespace(cliIn.mt)]
  /\ cliPc' = "done"
  /\ UNCHANGED <<cliIn, restVars, daemonVars, loadVars, procVars>>

CliNext == ListMetrics \/ GetMetric \/ InitClient \/ GetNamespace

(***************************************************************************)
(* snapctl: the claims.                                                    *)
(***************************************************************************)
EndsWith(s, suffix) ==
  Len(s) >= Len(suffix) /\ SubSeq(s, Len(s) - Len(suffix) + 1, Len(s)) = suffix

\* a namespace prefix: the root (empty), or a path from the root that ends
\* neither in a slash nor in the wildcard
IsNamespacePrefix(p) ==
  p = <<>> \/ (p[1] = "/" /\ ~EndsWith(p, <<"/">>) /\ ~EndsWith(p, WildcardSuffix))

\* C9: for every namespace prefix p, metric list issues the one normalized
\* query p/* whether the user supplies p, p/ or p/*.
C9_SameQueryForPrefixForms ==
  (cliPc = "done" /\ cliIn.cmd = "list") =>
    \A p \in Namespaces :
      (IsNamespacePrefix(p)
         /\ cliIn.ns \in {p, p \o <<"/">>, p \o WildcardSuffix})
        => (~cliOut.panic /\ cliOut.fetched /\ cliOut.query = p \o WildcardSuffix)

\* the normalization as C10 describes it
NormalizedAsClaimed(ns) ==
  IF ns = <<>> THEN WildcardSuffix
  ELSE IF EndsWith(ns, WildcardSuffix) THEN ns
  ELSE IF EndsWith(ns, <<"/">>) THEN ns \o <<"*">>
  ELSE ns \o WildcardSuffix

\* C10: the normalization accepts every namespace, the empty one and those
\* of length one included; the result is as described, ends in /* and is a
\* fixed point of the normalization.
C10_NormalizationTotal ==
  (cliPc = "done" /\ cliIn.cmd = "list") =>
    /\ ~cliOut.panic
    /\ cliOut.query = NormalizedAsClaimed(cliIn.ns)
    /\ EndsWith(cliOut.query, WildcardSuffix)
    /\ NormalizedAsClaimed(cliOut.query) = cliOut.query

\* C12: a snapctl command that reports an error exits with status 1, and
\* exits with 0 only when it reported none: metric list on an error of
\* FetchMetrics, metric get on an error of FetchMetrics or of GetMetric.
C12_ReportedErrorExitsOne ==
  (cliPc = "done" /\ cliIn.cmd \in {"list", "get"} /\ ~cliOut.panic) =>
    /\ (cliOut.reported => cliOut.exit = 1)
    /\ (cliOut.exit = 0 => ~cliOut.reported)

\* --password or -p is on the command line
PromptAsked(args) == \E i \in 1..Len(args) : args[i] \in {"--password", "-p"}

\* the places of --Password or -P that are followed by a value
PathPlaces(args) ==
  {i \in 1..(Len(args) - 1) : args[i] \in {"--Password", "-P"}}

\* the path of the password file: the value of the last --Password or -P
\* that has one, else SNAPCTL_PASS_PATH
PathAsClaimed(in) ==
  IF PathPlaces(in.args) # {} THEN in.args[Max(PathPlaces(in.args)) + 1]
  ELSE in.env

\* the password from the file as C14 describes it: the trimmed contents,
\* empty when no path is provided or the file cannot be read
FilePasswordAsClaimed(in) ==
  LET path == PathAsClaimed(in)
      provided == in.env # "" \/ \E i \in 1..Len(in.args) : in.args[i] \in {"--Password", "-P"}
  IN  IF provided /\ path \in in.readable
      THEN LET t == FileText(path)
               first == Min({i \in 1..Len(t) : ~(t[i] \in WhiteSpace)} \cup {Len(t) + 1})
               last == Max({i \in 1..Len(t) : ~(t[i] \in WhiteSpace)} \cup {0})
           IN  [i \in 1..(last - first + 1) |-> t[first + i - 1]]
      ELSE <<>>

\* C14 as claimed (for a prompt that is read): the user name is "snap";
\* with --password or -p the password is the value typed at the prompt and
\* no file is read; otherwise it is the whitespace-trimmed contents of the
\* password file, whose path is the value of --Password or -P when given
\* with a value and SNAPCTL_PASS_PATH otherwise, and it is empty when there
\* is neither or the file cannot be read.
C14_PasswordAsClaimed ==
  (cliPc = "done" /\ cliIn.cmd = "init" /\ ~cliIn.prompt.err) =>
    /\ cliOut.username = "snap"
    /\ IF PromptAsked(cliIn.args)
       THEN cliOut.password = cliIn.prompt.val /\ cliOut.filesRead = <<>>
       ELSE cliOut.password = FilePasswordAsClaimed(cliIn)

\* C14 as amended: the value typed at the prompt is whitespace-trimmed as
\* well, and the password is empty when the prompt cannot be read.
C14_PasswordTrimmed ==
  (cliPc = "done" /\ cliIn.cmd = "init") =>
    /\ cliOut.username = "snap"
    /\ IF PromptAsked(cliIn.args)
       THEN /\ cliOut.filesRead = <<>>
            /\ cliOut.prompted
            /\ \A i \in 1..Len(cliOut.password) :
                 cliOut.password[i] \notin WhiteSpace
            /\ IF cliIn.prompt.err THEN cliOut.password = <<>>
               ELSE cliIn.prompt.val \in
                      {cliOut.password, cliOut.password \o <<" ">>}
       ELSE /\ ~cliOut.prompted
            /\ cliOut.password = FilePasswordAsClaimed(cliIn)

C14_Witness ==
  /\ cliPc = "done" /\ cliIn.cmd = "init"
  /\ cliIn.env = "f2" /\ cliIn.readable = PassFiles
  /\ cliIn.args = <<"snapctl", "-P", "f1", "list">>
  /\ cliOut.password = <<"a">>
  /\ cliOut.filesRead = <<"f1">>

\* the namespace with the element at each declared place (counted from 0
\* after the leading slash) replaced by the bracketed name, from place i on
RECURSIVE Bracketed(_, _)
Bracketed(mt, i) ==
  IF i >= Len(mt.path) THEN <<>>
  ELSE LET at == {k \in 1..Len(mt.elements) : mt.elements[k].index = i} IN
       <<"/">>
         \o (IF at = {} THEN mt.path[i + 1]
             ELSE <<"[">> \o mt.elements[CHOOSE k \in at : TRUE].name \o <<"]">>)
         \o Bracketed(mt, i + 1)

\* C15: for a metric flagged dynamic getNamespace returns the namespace
\* with, for each declared dynamic element (name, index), the path element
\* at place index (counted from 0 after the leading slash) replaced by
\* "[name]" and every other element unchanged; for a metric not flagged
\* dynamic it returns the namespace unchanged.
C15_DynamicElementsBracketed ==
  (cliPc = "done" /\ cliIn.cmd = "namespace") =>
    IF cliIn.mt.dynamic
    THEN cliOut.namespace = Bracketed(cliIn.mt, 0)
    ELSE cliOut.namespace = cliIn.mt.namespace

C15_Witness ==
  /\ cliPc = "done" /\ cliIn.cmd = "namespace"
  /\ cliIn.mt.dynamic
  /\ cliIn.mt.namespace = <<"/", "a", "/", "m", "o", "/", "a">>
  /\ cliIn.mt.elements = <<[name |-> <<"h">>, index |-> 2],
                           [name |-> <<"i", "d">>, index |-> 0]>>
  /\ cliOut.namespace =
       <<"/", "[", "i", "d", "]", "/", "m", "o", "/", "[", "h", "]">>

\* what the catalog answers to the swap of resp
SwapOutcome ==
  CatalogSwapPlugins(resp.pre, tmpDirs, trustLevel, RequestedOf(resp),
                     ParamPlugin(resp.req))

\* C18: when the swap of the catalog returns an error, swapPlugins answers
\* with the status and the body of that error (409 for "plugin is already
\* loaded", 500 otherwise), never with 201, and the temporary directory of
\* the upload is removed.
C18_SwapErrorAnswered ==
  (resp.op = "swap" /\ resp.out.swapCalls = 1 /\ SwapOutcome.err # "") =>
    /\ resp.out.responses = 1
    /\ resp.out.status =
         (IF SwapOutcome.err = PluginAlreadyLoaded THEN 409 ELSE 500)
    /\ resp.out.msg = SwapOutcome.err
    /\ resp.out.dir \notin tmpDirs

\* C20: a swap whose path parameters are invalid is answered 400 without a
\* call of the swap of the catalog, leaves the catalog as it was and leaves
\* no uploaded artifact behind in a temporary directory.
C20_BadSwapParamsLeaveNothing ==
  (resp.op = "swap" /\ Undisturbed(resp.req) /\ ~OrderViolation(resp.req.parts)
     /\ (resp.req.version \notin {"1", "2"} \/ resp.req.name = ""
           \/ resp.req.type = "")) =>
    /\ resp.out.status = 400
    /\ resp.out.swapCalls = 0
    /\ catalog = resp.pre
    /\ (resp.out.dir # 0 => resp.out.dir \notin tmpDirs)

\* C16: GET /plugins/:type/:name/:version answers 400 when the version is
\* no integer, the name is empty or the type is empty, 404 when no entry of
\* the catalog matches all three, and otherwise, when no download is asked
\* for, 200 with the metadata of the plugin; the catalog is never modified.
C16_GetPluginStatus ==
  resp.op = "getPlugin" =>
    /\ catalog = resp.pre
    /\ resp.out.responses = 1
    /\ resp.out.loadCalls = 0 /\ resp.out.unloadCalls = 0 /\ resp.out.swapCalls = 0
    /\ LET r == resp.req
           bad == r.version \notin {"1", "2"} \/ r.name = "" \/ r.type = ""
           hits == {i \in 1..Len(resp.pre) :
                      /\ resp.pre[i].type = r.type
                      /\ resp.pre[i].name = r.name
                      /\ r.version = (IF resp.pre[i].version = 1 THEN "1" ELSE "2")}
       IN  IF bad THEN resp.out.status = 400
           ELSE IF hits = {} THEN resp.out.status = 404
           ELSE ~r.download =>
                  /\ resp.out.status = 200
                  /\ resp.out.plugin.type = r.type
                  /\ resp.out.plugin.name = r.name
                  /\ resp.out.plugin.version = (IF r.version = "1" THEN 1 ELSE 2)
                  /\ resp.out.plugin \in Triples(resp.pre)

C16_Witness ==
  /\ resp.op = "getPlugin" /\ ~resp.req.download
  /\ Len(catalog) = 3
  /\ resp.out.status = 200
  /\ resp.out.plugin = [type |-> "processor", name |-> "mock", version |-> 1]
  /\ Triple(catalog[3]) = resp.out.plugin

\* the plugin passes the filters of the request that are present
Passes(pl, req) ==
  /\ (req.name # "" => pl.name = req.name)
  /\ (req.type # "" => pl.type = req.type)

\* C17: GET /plugins returns exactly the loaded plugins that pass every
\* filter present (name, type), in the order of the catalog, none left out
\* and none twice; the running plugins are returned, under the same
\* filters, only when details is asked for.
C17_GetPluginsFiltered ==
  resp.op = "getPlugins" =>
    /\ resp.out.status = 200
    /\ catalog = resp.pre
    /\ resp.out.list.loaded =
         SelectSeq([i \in 1..Len(resp.pre) |-> Triple(resp.pre[i])],
                   LAMBDA pl : Passes(pl, resp.req))
    /\ resp.out.list.available =
         (IF resp.req.details
          THEN SelectSeq(available, LAMBDA pl : Passes(pl, resp.req))
          ELSE <<>>)

C17_Witness ==
  /\ resp.op = "getPlugins" /\ resp.req.details
  /\ resp.req.name = "mock" /\ resp.req.type = "processor"
  /\ Len(catalog) = 3 /\ Len(available) = 2
  /\ Len(resp.out.list.loaded) = 1
  /\ Len(resp.out.list.available) = 1

\* C21: no Load call reaches plugin control, from autodiscovery, from the
\* REST API or from a tribe replay, before the trust level and the keyring
\* files have been set on it
C21_LoadsAfterTrustAndKeyring ==
  \A l \in loads : l.trust /\ l.keyring

\* the number of Load calls autodiscovery made for file name of path p
Attempts(p, name) ==
  Cardinality({k \in 1..Len(discovered.attempts) :
                 discovered.attempts[k] = <<p, name>>})

\* C24: when autodiscovery has run over directories that can be listed,
\* every file that is no directory and whose name does not end in .asc got
\* exactly one Load call, every other entry got none, and whatever failed
\* on a file, action() went on to start the REST API
C24_EveryPluginFileAttemptedOnce ==
  LET paths == cfg.autodiscover IN
  (/\ discovered.end \notin {"none", "disabled"}
   /\ \A p \in 1..Len(paths) : paths[p].readable) =>
    /\ \A p \in 1..Len(paths) : \A i \in 1..Len(paths[p].files) :
         LET f == paths[p].files[i] IN
         Attempts(p, f.name) =
           (IF ~f.isDir /\ ~HasSuffix(f.name, AscExt) THEN 1 ELSE 0)
    /\ discovered.end = "done"
    /\ mainPc.at \in {"api", "serving"}

\* C22: in every interleaving of start-up with the signal goroutine, Stop
\* is called only on a module whose Start has already returned nil, and no
\* Start of a module is called after a Stop of that module was called
C22_StopOnlyAfterStart ==
  \A j \in 1..Len(events) :
    events[j].what = "StopCall" =>
      /\ \E i \in 1..(j - 1) :
           events[i].what = "StartOk" /\ events[i].m = events[j].m
      /\ \A k \in (j + 1)..Len(events) :
           ~(events[k].what = "StartCall" /\ events[k].m = events[j].m)

\* C23: every invocation of loadPlugin and of swapPlugins has written
\* exactly one response when it returns, whatever the request
C23_ExactlyOneResponse ==
  resp.op \in {"load", "swap"} => resp.out.responses = 1

\* the namespaces a fetch may name to fetch what is under the requested ns:
\* ns itself, or ns without its final "*" or "/*"
RequestedQueries(ns) ==
  {ns, SubSeq(ns, 1, Len(ns) - 1)}
    \cup (IF EndsWith(ns, WildcardSuffix)
          THEN {SubSeq(ns, 1, Len(ns) - 2)} ELSE {})

\* C25: metric get with a namespace ending in "*" fetches the metrics under
\* the namespace that was requested
C25_FetchesRequestedNamespace ==
  (cliPc = "done" /\ cliIn.cmd = "get" /\ cliOut.fetched) =>
    cliOut.query \in RequestedQueries(cliIn.ns)

(***************************************************************************)
(* passthru: Process of the passthru processor.  A payload is a sequence   *)
(* of bytes; the gob stream of a list of metrics is its length followed by *)
(* two bytes for each metric, the head of its namespace and its data.      *)
(***************************************************************************)
Bytes == 0..2

\* the first element of a namespace as a byte; 0: the namespace is empty
NamespaceHeads == <<"foo", "bar">>

Payloads == UNION {[1..n -> Bytes] : n \in 0..MaxPayload}

ContentTypes == {"snap.gob", "snap.json", ""}

\* the keys a config may hold
ConfigKeys == {"test", "passthru"}

RECURSIVE DecodeMetrics(_)
DecodeMetrics(bytes) ==
  IF bytes = <<>> THEN <<>>
  ELSE <<[ns |-> bytes[1], data |-> bytes[2]]>>
         \o DecodeMetrics(SubSeq(bytes, 3, Len(bytes)))

\* gob Decode into []plugin.MetricType
Decode(content) ==
  IF content = <<>> THEN [err |-> "EOF", metrics |-> <<>>]
  ELSE IF Len(content) # 1 + 2 * content[1]
  THEN [err |-> "unexpected EOF", metrics |-> <<>>]
  ELSE [err |-> "", metrics |-> DecodeMetrics(Tail(content))]

RECURSIVE EncodeMetrics(_)
EncodeMetrics(metrics) ==
  IF metrics = <<>> THEN <<>>
  ELSE <<Head(metrics).ns, Head(metrics).data>> \o EncodeMetrics(Tail(metrics))

\* gob Encode of []plugin.MetricType
Encode(metrics) == <<Len(metrics)>> \o EncodeMetrics(metrics)

NoProcIn == [contentType |-> "", content |-> <<>>, config |-> {}]

\* what Process returns: the content type, the payload (isNil: a nil slice)
\* and the error ("" stands for nil); panic: it did not return
NoProcOut ==
  [calls |-> 0, contentType |-> "", content |-> <<>>, isNil |-> FALSE,
   err |-> "", panic |-> FALSE]

\* the block under the key "test": decode, set the data of every metric
\* whose namespace begins with foo to 2, encode
ProcessTest(contentType, content) ==
  LET d == Decode(content) IN
  IF d.err # ""
  THEN [NoProcOut EXCEPT !.calls = 1, !.isNil = TRUE, !.err = d.err]
  ELSE IF \E i \in 1..Len(d.metrics) : d.metrics[i].ns = 0
  THEN [NoProcOut EXCEPT !.calls = 1, !.panic = TRUE]
  ELSE LET metrics ==
             [i \in 1..Len(d.metrics) |->
                IF NamespaceHeads[d.metrics[i].ns] = "foo"
                THEN [d.metrics[i] EXCEPT !.data = 2] ELSE d.metrics[i]]
       IN  [NoProcOut EXCEPT !.calls = 1, !.contentType = contentType,
                             !.content = Encode(metrics)]

\* Process with the test block entered whatever the config holds
ProcessAlwaysTest(contentType, content, config) ==
  ProcessTest(contentType, content)

\* passthruProcessor.Process
Process(contentType, content, config) ==
  IF "test" \in config
  THEN ProcessTest(contentType, content)
  ELSE [NoProcOut EXCEPT !.calls = 1, !.contentType = contentType,
                         !.content = content]

ProcessInit ==
  /\ procIn \in [contentType : ContentTypes, content : Payloads,
                  config : SUBSET ConfigKeys]
  /\ procOut = NoProcOut

\* one call of Process
CallProcess ==
  /\ procOut.calls = 0
  /\ procOut' = Process(procIn.contentType, procIn.content, procIn.config)
  /\ UNCHANGED <<procIn, restVars, daemonVars, cliVars, loadVars>>

\* C26: without the key "test" in the config, Process returns the content
\* type and the payload it was given and no error; with the key "test" and
\* a payload that does not decode, it returns an empty content type, a nil
\* payload and the error of the decoder
C26_PassthruOrDecodeError ==
  procOut.calls = 1 =>
    /\ "test" \notin procIn.config =>
          /\ ~procOut.panic /\ procOut.err = "" /\ ~procOut.isNil
          /\ procOut.contentType = procIn.contentType
          /\ procOut.content = procIn.content
    /\ ("test" \in procIn.config /\ Decode(procIn.content).err # "") =>
          /\ ~procOut.panic
          /\ procOut.contentType = "" /\ procOut.isNil
          /\ procOut.content = <<>>
          /\ procOut.err = Decode(procIn.content).err

C26_Witness ==
  /\ procOut.calls = 1
  /\ procIn.config = {"test", "passthru"}
  /\ procIn.contentType = "snap.gob"
  /\ procIn.content = <<1, 1>>
  /\ procOut.err = "unexpected EOF" /\ procOut.isNil

DaemonIdle ==
  /\ mainPc = At("off", 0) /\ sigPc = At("off", 0) /\ monPc = At("off", 0)
  /\ cfg = DefaultSettings
  /\ started = <<>> /\ events = <<>> /\ exitCode = -1 /\ gomaxprocs = 0
  /\ loads = {} /\ discovered = NoDiscovery

CliIdle ==
  /\ cliPc = "off"
  /\ cliIn = NoCliIn
  /\ cliOut = NoCliOut

ProcIdle == procIn = NoProcIn /\ procOut = NoProcOut

Init == RestInit /\ DaemonIdle /\ CliIdle /\ ProcIdle

Next == LoadPlugin \/ UnloadPlugin \/ SwapPlugins \/ Deliver

\* the REST plugin handlers
Spec == Init /\ [][Next]_vars

RestIdle ==
  /\ catalog = <<>> /\ tmpDirs = {} /\ trustLevel = 0 /\ resp = NoResp
  /\ available = <<>>

\* the handlers that query the catalog
InitQuery == QueryInit /\ DaemonIdle /\ CliIdle /\ ProcIdle

SpecQuery == InitQuery /\ [][QueryNext]_vars

\* snapd from start-up to exit
InitDaemon == DaemonInit /\ RestIdle /\ CliIdle /\ ProcIdle

SpecDaemon == InitDaemon /\ [][DaemonNext]_vars

\* setMaxProcs on every host and for every value of --max-procs
InitMaxProcs ==
  cfg \in MaxProcsSettings /\ DaemonStart /\ RestIdle /\ CliIdle /\ ProcIdle

SpecMaxProcs == InitMaxProcs /\ [][SetMaxProcs]_vars

\* one run of snapctl
InitCli == CliInit /\ RestIdle /\ DaemonIdle /\ ProcIdle

SpecCli == InitCli /\ [][CliNext]_vars

\* snapd's start-up and the paths by which a plugin load reaches the catalog
InitStartup == StartupInit /\ RestIdle /\ CliIdle /\ ProcIdle

SpecStartup == InitStartup /\ [][StartupNext]_vars

\* one call of Process of the passthru processor
InitProcess == ProcessInit /\ RestIdle /\ DaemonIdle /\ CliIdle

SpecProcess == InitProcess /\ [][CallProcess]_vars

====
